---- MODULE Spec2Model ----
(***************************************************************************)
(* extractYamlComments (src/index.ts): the tree walk that builds the node  *)
(* catalog, and the line scan that attributes every comment to a path.     *)
(*                                                                         *)
(* Offsets are 0-based as in the source; the character at offset o of a    *)
(* text t is t[o + 1].  A text is a sequence of one-character strings.     *)
(* Paths and keys are strings.                                             *)
(***************************************************************************)
EXTENDS Integers, Sequences, FiniteSets, TLC

\* The longest document, in top-level units (a comment line, a key/value
\* pair with everything nested under it, a document-start line).
MaxUnits == 2

(***************************************************************************)
(* The parsed tree, as index.ts reads it: node.range, node.type, isMap,    *)
(* isSeq, isScalar, node.items, pair.key, pair.value, scalar.value.        *)
(***************************************************************************)
Null == [kind |-> "null"]

ScalarNode(type, s, e, v) ==
    [kind |-> "scalar", type |-> type, range |-> <<s, e>>, value |-> v,
     items |-> <<>>]

MapNode(s, e, pairs) ==
    [kind |-> "map", type |-> "undefined", range |-> <<s, e>>, value |-> "",
     items |-> pairs]

SeqNode(s, e, children) ==
    [kind |-> "seq", type |-> "undefined", range |-> <<s, e>>, value |-> "",
     items |-> children]

Pair(k, v) == [key |-> k, value |-> v]

isMap(node) == node.kind = "map"
isSeq(node) == node.kind = "seq"
isScalar(node) == node.kind = "scalar"

\* Array.prototype.join(".") of a path of strings and numbers.
RECURSIVE join(_)
join(path) ==
    IF Len(path) = 0 THEN ""
    ELSE IF Len(path) = 1 THEN path[1]
    ELSE join(SubSeq(path, 1, Len(path) - 1)) \o "." \o path[Len(path)]

\* keyStr: a scalar key renders as its value, any other key as the sentinel.
keyStr(k) == IF isScalar(k) THEN k.value ELSE "<non-scalar-key>"

NodeInfo(s, e, p) == [start |-> s, end |-> e, path |-> p]

EmptyAcc == [nodes |-> <<>>, blockRanges |-> <<>>, valueNodes |-> <<>>,
             threw |-> FALSE]

\* Reading .range of a pair's key or value: a TypeError when that is null.
RangeOfThrows(n) == n.kind = "null"

\* The track-the-node-itself test of walkAst.
TracksItself(node, path) == Len(path) > 0 \/ isMap(node) \/ isSeq(node)

\* walkAst(node, path): acc is the three arrays the closure appends to, and
\* whether an exception has left the walk.
RECURSIVE walkAst(_, _, _), walkPairs(_, _, _, _), walkItems(_, _, _, _)
walkAst(node, path, acc) ==
    IF acc.threw THEN acc
    ELSE IF node.kind = "null" THEN acc
    ELSE IF Len(node.range) < 2 THEN acc
    ELSE
      LET start == node.range[1]
          end == node.range[2]
          a1 == IF node.type \in {"BLOCK_LITERAL", "BLOCK_FOLDED"}
                THEN [acc EXCEPT !.blockRanges = Append(@, <<start, end>>)]
                ELSE acc
          a2 == IF TracksItself(node, path)
                THEN [a1 EXCEPT !.nodes =
                          Append(@, NodeInfo(start, end, join(path)))]
                ELSE a1
          scalarNode == NodeInfo(start, end, join(path))
      IN  IF isMap(node) THEN walkPairs(node.items, 1, path, a2)
          ELSE IF isSeq(node) THEN walkItems(node.items, 1, path, a2)
          ELSE [a2 EXCEPT !.nodes = Append(@, scalarNode),
                          !.valueNodes = Append(@, scalarNode)]

\* for (const pair of node.items || []) { ... }
walkPairs(pairs, k, path, acc) ==
    IF acc.threw \/ k > Len(pairs) THEN acc
    ELSE
      LET pair == pairs[k]
          key == keyStr(pair.key)
      IN  IF RangeOfThrows(pair.key) \/ RangeOfThrows(pair.value)
          THEN [acc EXCEPT !.threw = TRUE]
          ELSE
            LET valueRange == pair.value.range
            IN  IF Len(valueRange) >= 2
                THEN
                  LET valueNode == NodeInfo(valueRange[1], valueRange[2],
                                            join(Append(path, key)))
                      a1 == [acc EXCEPT !.nodes = Append(@, valueNode)]
                      a2 == IF ~isMap(pair.value) /\ ~isSeq(pair.value)
                            THEN [a1 EXCEPT !.valueNodes =
                                      Append(@, valueNode)]
                            ELSE a1
                  IN  walkPairs(pairs, k + 1, path,
                                walkAst(pair.value, Append(path, key), a2))
                ELSE walkPairs(pairs, k + 1, path, acc)

\* (node.items || []).forEach((child, i) => walkAst(child, [...path, i]))
walkItems(children, k, path, acc) ==
    IF acc.threw \/ k > Len(children) THEN acc
    ELSE walkItems(children, k + 1, path,
                   walkAst(children[k], Append(path, ToString(k - 1)), acc))

(***************************************************************************)
(* The documents.  A document is a sequence of at most MaxUnits top-level  *)
(* units; each unit is some whole lines of text and, unless it is only a   *)
(* comment or the document-start line, one pair of the root block map      *)
(* ("cpair" is a pair with a comment line of its own before it).           *)
(* UnitText is the unit's text for key k, UnitPair the pair the parser     *)
(* (YAML.parseDocument) returns for it when the unit starts at offset off  *)
(* and nl line breaks (0 or 1) follow it.  Ranges are the parser's         *)
(* [start, value end): a block scalar runs from its indicator to the end   *)
(* of its body, line break included; a block collection from its first     *)
(* key or "-" to the end of its last value's line.                         *)
(***************************************************************************)
Keys == <<"a", "b", "c", "d", "e">>

UnitKinds ==
    {"hdr", "cmt0", "cmt1", "cmt2", "pair", "pairT", "cpair", "url", "urlT",
     "block", "fold", "map", "seq", "quoted", "flow", "blockKey", "seqKey",
     "noValue", "bare"}

\* Units that put no pair into the root map.
PairlessKinds == {"hdr", "cmt0", "cmt1", "cmt2", "bare"}

UnitText(kind, k) ==
    CASE kind = "hdr"   -> <<"-", "-", "-", " ", "#", " ", "c">>
      [] kind = "cmt0"  -> <<"#", "c", "\r">>
      [] kind = "cmt1"  -> <<"#", " ", "c">>
      [] kind = "cmt2"  -> <<"#", " ", "\t", "c", " ", "#", "d", " ">>
      [] kind = "pair"  -> <<k, ":", " ", "1">>
      [] kind = "pairT" -> <<k, ":", " ", "1", " ", "#", " ", " ", "t">>
      [] kind = "cpair" -> <<"#", " ", "g", "\n", k, ":", " ", "2">>
      [] kind = "url"   -> <<k, ":", " ", "x", "#", "y">>
      [] kind = "urlT"  -> <<k, ":", " ", "x", "#", "y", " ", "#", "t">>
      [] kind = "block" -> <<k, ":", " ", "|", "\n",
                             " ", " ", "#", " ", "n", "\n",
                             " ", " ", "m">>
      [] kind = "fold"  -> <<k, ":", " ", ">", " ", "#", "h", "\n",
                             " ", " ", " ", "#", "n", " ", "#">>
      [] kind = "map"   -> <<k, ":", "\n",
                             " ", " ", "#", " ", "c", "\n",
                             " ", " ", "x", ":", " ", "1", "\n",
                             " ", " ", "#", " ", "c", "\n",
                             " ", " ", "y", ":", " ", "2", " ", "#", " ", "t">>
      [] kind = "seq"   -> <<k, ":", "\n",
                             " ", " ", "#", " ", "c", "\n",
                             " ", " ", "-", " ", "o", "\n",
                             " ", " ", "#", " ", "c", "\n",
                             " ", " ", "-", " ", "t">>
      [] kind = "quoted" -> <<k, ":", " ", "\"", "x", "\n",
                              " ", " ", "#", " ", "y", "\"">>
      [] kind = "flow"  -> <<k, ":", " ", "[", "1", ",", " ", "2", ",", " ",
                             "#", " ", "c", "\n",
                             " ", " ", "3", "]">>
      [] kind = "blockKey" -> <<"?", " ", "|", "\n",
                                " ", " ", "#", " ", "k", "\n",
                                ":", " ", "v">>
      [] kind = "seqKey" -> <<"[", k, "]", ":", " ", "v", " ", "#", " ", "t">>
      [] kind = "noValue" -> <<"?", " ", k>>
      [] kind = "bare"  -> <<"f", "o", "o", " ", "#", " ", "c">>

\* Where in its unit a pair starts: after the comment line of "cpair".
PairStart(kind) == IF kind = "cpair" THEN 4 ELSE 0

UnitPair(kind, k, off, nl) ==
    CASE kind \in {"pair", "pairT"} ->
           Pair(ScalarNode("PLAIN", off, off + 1, k),
                ScalarNode("PLAIN", off + 3, off + 4, "1"))
      [] kind = "cpair" ->
           Pair(ScalarNode("PLAIN", off + 4, off + 5, k),
                ScalarNode("PLAIN", off + 7, off + 8, "2"))
      [] kind \in {"url", "urlT"} ->
           Pair(ScalarNode("PLAIN", off, off + 1, k),
                ScalarNode("PLAIN", off + 3, off + 6, "x#y"))
      [] kind = "block" ->
           Pair(ScalarNode("PLAIN", off, off + 1, k),
                ScalarNode("BLOCK_LITERAL", off + 3, off + 14 + nl,
                           "# n\nm\n"))
      [] kind = "fold" ->
           Pair(ScalarNode("PLAIN", off, off + 1, k),
                ScalarNode("BLOCK_FOLDED", off + 3, off + 15 + nl,
                           " #n #\n"))
      [] kind = "map" ->
           Pair(ScalarNode("PLAIN", off, off + 1, k),
                MapNode(off + 11, off + 32 + nl,
                        <<Pair(ScalarNode("PLAIN", off + 11, off + 12, "x"),
                               ScalarNode("PLAIN", off + 14, off + 15, "1")),
                          Pair(ScalarNode("PLAIN", off + 24, off + 25, "y"),
                               ScalarNode("PLAIN", off + 27, off + 28, "2"))
                        >>))
      [] kind = "seq" ->
           Pair(ScalarNode("PLAIN", off, off + 1, k),
                SeqNode(off + 11, off + 26 + nl,
                        <<ScalarNode("PLAIN", off + 13, off + 14, "o"),
                          ScalarNode("PLAIN", off + 25, off + 26, "t")>>))
      [] kind = "quoted" ->
           Pair(ScalarNode("PLAIN", off, off + 1, k),
                ScalarNode("QUOTE_DOUBLE", off + 3, off + 12, "x # y"))
      [] kind = "flow" ->
           Pair(ScalarNode("PLAIN", off, off + 1, k),
                SeqNode(off + 3, off + 18,
                        <<ScalarNode("PLAIN", off + 4, off + 5, "1"),
                          ScalarNode("PLAIN", off + 7, off + 8, "2"),
                          ScalarNode("PLAIN", off + 16, off + 17, "3")>>))
      [] kind = "blockKey" ->
           Pair(ScalarNode("BLOCK_LITERAL", off + 2, off + 10, "# k\n"),
                ScalarNode("PLAIN", off + 12, off + 13, "v"))
      [] kind = "seqKey" ->
           Pair(SeqNode(off, off + 3,
                        <<ScalarNode("PLAIN", off + 1, off + 2, k)>>),
                ScalarNode("PLAIN", off + 5, off + 6, "v"))
      [] kind = "noValue" ->
           Pair(ScalarNode("PLAIN", off + 2, off + 3, k), Null)

\* Which sequences of units are documents: the document-start line comes
\* first and is followed by a pair; a bare root scalar is a document alone.
WellFormed(units) ==
    /\ Len(units) >= 1
    /\ \A p \in 2..Len(units) : units[p] # "hdr"
    /\ (units[1] = "hdr" => \E p \in 2..Len(units) : units[p] \notin PairlessKinds)
    /\ \A p \in 1..Len(units) : units[p] = "bare" => Len(units) = 1

UnitSeqs == UNION {[1..n -> UnitKinds] : n \in 1..MaxUnits}

RECURSIVE UnitOffset(_, _)
UnitOffset(units, p) ==
    IF p = 1 THEN 0
    ELSE UnitOffset(units, p - 1)
         + Len(UnitText(units[p - 1], Keys[p - 1])) + 1

\* The text: the units' lines joined by "\n".
RECURSIVE Source(_, _)
Source(units, p) ==
    IF p > Len(units) THEN <<>>
    ELSE UnitText(units[p], Keys[p])
         \o (IF p < Len(units) THEN <<"\n">> ELSE <<>>)
         \o Source(units, p + 1)

\* doc.contents of YAML.parseDocument(Source(units, 1)).
Contents(units) ==
    LET ps == {p \in 1..Len(units) : units[p] \notin PairlessKinds}
        nlAfter(p) == IF p < Len(units) THEN 1 ELSE 0
        RECURSIVE pairsFrom(_)
        pairsFrom(p) ==
            IF p > Len(units) THEN <<>>
            ELSE (IF p \in ps
                  THEN <<UnitPair(units[p], Keys[p], UnitOffset(units, p),
                                  nlAfter(p))>>
                  ELSE <<>>) \o pairsFrom(p + 1)
        first == CHOOSE p \in ps : \A q \in ps : p <= q
        last == CHOOSE p \in ps : \A q \in ps : q <= p
    IN  IF units = <<"bare">> THEN ScalarNode("PLAIN", 0, 3, "foo")
        ELSE IF ps = {} THEN Null
        ELSE MapNode(UnitOffset(units, first) + PairStart(units[first]),
                     UnitOffset(units, last)
                       + Len(UnitText(units[last], Keys[last]))
                       + nlAfter(last),
                     pairsFrom(1))

(***************************************************************************)
(* String helpers of the scan.                                             *)
(***************************************************************************)
WhiteSpace == {" ", "\t", "\r", "\n"}

\* String.prototype.trimStart.
RECURSIVE trimStart(_)
trimStart(t) ==
    IF Len(t) > 0 /\ t[1] \in WhiteSpace THEN trimStart(Tail(t)) ELSE t

\* t.trim() === "".
trimsToEmpty(t) == \A n \in 1..Len(t) : t[n] \in WhiteSpace

\* line.indexOf("#", from): 0-based, -1 when there is none.
RECURSIVE indexOfHash(_, _)
indexOfHash(line, from) ==
    IF from >= Len(line) THEN -1
    ELSE IF line[from + 1] = "#" THEN from
    ELSE indexOfHash(line, from + 1)

\* t.substring(0, off).split("\n").length
lineNumberAt(t, off) ==
    Cardinality({n \in 1..off : n <= Len(t) /\ t[n] = "\n"}) + 1

\* lineStarts: 0, and the offset after every "\n".
RECURSIVE lineStartsFrom(_, _)
lineStartsFrom(t, n) ==
    IF n > Len(t) THEN <<>>
    ELSE (IF t[n] = "\n" THEN <<n>> ELSE <<>>) \o lineStartsFrom(t, n + 1)

lineStartsOf(t) == <<0>> \o lineStartsFrom(t, 1)

\* src.split(/\r?\n/): cut at every "\n", a "\r" right before it dropped.
splitLines(t) ==
    LET ls == lineStartsOf(t)
        piece(n) ==
            LET from == ls[n] + 1
                to == IF n < Len(ls) THEN ls[n + 1] - 1 ELSE Len(t)
                cut == IF n < Len(ls) /\ to >= from /\ t[to] = "\r"
                       THEN to - 1 ELSE to
            IN  SubSeq(t, from, cut)
    IN  [n \in 1..Len(ls) |-> piece(n)]

(***************************************************************************)
(* The catalog and its lookups.                                            *)
(***************************************************************************)
\* The comparator of nodes.sort.
sortsBefore(a, b) == a.start - b.start < 0

\* nodes.sort((a, b) => a.start - b.start): stable, so equal starts keep
\* their traversal order.
RECURSIVE insertSorted(_, _)
insertSorted(sorted, x) ==
    IF Len(sorted) = 0 THEN <<x>>
    ELSE IF sortsBefore(x, sorted[Len(sorted)])
         THEN Append(insertSorted(SubSeq(sorted, 1, Len(sorted) - 1), x),
                     sorted[Len(sorted)])
         ELSE Append(sorted, x)

RECURSIVE sortByStart(_)
sortByStart(ns) ==
    IF Len(ns) = 0 THEN <<>>
    ELSE insertSorted(sortByStart(SubSeq(ns, 1, Len(ns) - 1)), ns[Len(ns)])

\* Infinity, as an offset no text reaches.
Infinity == 1000000

firstNodeStartOf(ns) == IF Len(ns) > 0 THEN ns[1].start ELSE Infinity

inBlockOf(brs, offset) ==
    \E n \in 1..Len(brs) : offset >= brs[n][1] /\ offset < brs[n][2]

inValueNodeOf(vns, offset) ==
    \E n \in 1..Len(vns) : vns[n].start < offset /\ offset < vns[n].end

\* Mutant of nextNodeTest: the entry's end is compared instead of its start.
nextNodeTestOnEnd(node, offset) == node.end >= offset

\* findNextNode / findNodeAtOffset return an index into nodes, 0 for null.
nextNodeTest(node, offset) == node.start >= offset

findNextNodeIn(ns, offset) ==
    LET hits == {n \in 1..Len(ns) : nextNodeTest(ns[n], offset)}
    IN  IF hits = {} THEN 0 ELSE CHOOSE n \in hits : \A m \in hits : n <= m

findNodeAtOffsetIn(ns, t, offset) ==
    LET hits == {n \in 1..Len(ns) :
                   /\ ns[n].end <= offset /\ ns[n].start <= offset
                   /\ lineNumberAt(t, ns[n].start) = lineNumberAt(t, offset)}
    IN  IF hits = {} THEN 0 ELSE CHOOSE n \in hits : \A m \in hits : n <= m

VARIABLES
    src,          \* the document text
    doc,          \* doc.contents of YAML.parseDocument(src)
    nodes,        \* the catalog, sorted by start once the walk is over
    blockRanges,  \* the block scalars' ranges
    valueNodes,   \* the scalar values' entries
    lineStarts,   \* the offset of every line's first character
    lines,        \* src.split(/\r?\n/)
    pc,           \* "walk", "scan", "done" (returned) or "threw"
    i,            \* the scan's line index, 0-based
    comments,     \* the result: records {line, path, text}
    hashIndexes   \* hashIndex of each record of comments, in order

vars == <<src, doc, nodes, blockRanges, valueNodes, lineStarts, lines, pc, i,
          comments, hashIndexes>>

firstNodeStart == firstNodeStartOf(nodes)
inBlock(offset) == inBlockOf(blockRanges, offset)
inValueNode(offset) == inValueNodeOf(valueNodes, offset)
findNextNode(offset) == findNextNodeIn(nodes, offset)
findNodeAtOffset(offset) == findNodeAtOffsetIn(nodes, src, offset)

\* Mutant of beforeFirstNode: the comparison is turned around.
afterFirstNode(hashOffset) == hashOffset > firstNodeStart

\* "Comment is before first node".
beforeFirstNode(hashOffset) == hashOffset < firstNodeStart

isFullLineComment(line, hashIndex) ==
    trimsToEmpty(SubSeq(line, 1, hashIndex))

\* Mutant of skipsHash: only block scalars are passed over.
skipsHashInBlockOnly(line, lineStart, hashIndex) ==
    inBlock(lineStart + hashIndex)

\* Whether the while loop passes over the "#" at hashIndex and looks for
\* the next one.
skipsHash(line, lineStart, hashIndex) ==
    \/ inBlock(lineStart + hashIndex)
    \/ /\ ~isFullLineComment(line, hashIndex)
       /\ inValueNode(lineStart + hashIndex)

\* Mutant of commentHash: a passed-over "#" ends the scan of its line.
commentHashFirstOnly(line, lineStart, from) ==
    LET hashIndex == indexOfHash(line, from)
    IN  IF hashIndex = -1 \/ skipsHash(line, lineStart, hashIndex) THEN -1
        ELSE hashIndex

\* The while loop over the "#" of a line: the hashIndex it emits a comment
\* for, -1 when it runs out of "#".
RECURSIVE commentHash(_, _, _)
commentHash(line, lineStart, from) ==
    LET hashIndex == indexOfHash(line, from)
    IN  IF hashIndex = -1 THEN -1
        ELSE IF skipsHash(line, lineStart, hashIndex)
             THEN commentHash(line, lineStart, hashIndex + 1)
             ELSE hashIndex

\* Mutant of commentText: one space at most is removed.
commentTextOneSpace(line, hashIndex) ==
    LET rest == SubSeq(line, hashIndex + 2, Len(line))
    IN  IF Len(rest) > 0 /\ rest[1] = " " THEN Tail(rest) ELSE rest

\* "Extract comment text".
commentText(line, hashIndex) ==
    trimStart(SubSeq(line, hashIndex + 2, Len(line)))

\* Mutant of recordLine: the 0-based index is recorded.
recordLineZeroBased(n) == n

\* line: i + 1
recordLine(n) == n + 1

pathOfNode(n) == nodes[n].path

\* "Determine which node this comment belongs to", for line n (0-based).
commentPath(n, line, hashIndex) ==
    LET hashOffset == lineStarts[n + 1] + hashIndex
    IN  IF isFullLineComment(line, hashIndex)
        THEN LET nextLineStart == IF n < Len(lines) - 1
                                  THEN lineStarts[n + 2] ELSE Len(src)
                 node == findNextNode(nextLineStart)
             IN  IF beforeFirstNode(hashOffset) THEN "document"
                 ELSE IF node # 0 THEN pathOfNode(node)
                 ELSE "document"
        ELSE LET node == findNodeAtOffset(hashOffset)
             IN  IF node # 0 THEN pathOfNode(node)
                 ELSE LET next == findNextNode(hashOffset)
                      IN  IF next # 0 THEN pathOfNode(next) ELSE "document"

Init ==
    /\ \E units \in UnitSeqs :
         /\ WellFormed(units)
         /\ src = Source(units, 1)
         /\ doc = Contents(units)
    /\ nodes = <<>>
    /\ blockRanges = <<>>
    /\ valueNodes = <<>>
    /\ lineStarts = <<>>
    /\ lines = <<>>
    /\ pc = "walk"
    /\ i = 0
    /\ comments = <<>>
    /\ hashIndexes = <<>>

\* walkAst(doc.contents, []) returns; nodes.sort; lineStarts and lines are
\* precomputed.
Walk ==
    /\ pc = "walk"
    /\ LET acc == walkAst(doc, <<>>, EmptyAcc)
       IN  /\ ~acc.threw
           /\ nodes' = sortByStart(acc.nodes)
           /\ blockRanges' = acc.blockRanges
           /\ valueNodes' = acc.valueNodes
    /\ lineStarts' = lineStartsOf(src)
    /\ lines' = splitLines(src)
    /\ pc' = "scan"
    /\ UNCHANGED <<src, doc, i, comments, hashIndexes>>

\* walkAst throws: the exception leaves extractYamlComments.
WalkThrows ==
    /\ pc = "walk"
    /\ walkAst(doc, <<>>, EmptyAcc).threw
    /\ pc' = "threw"
    /\ UNCHANGED <<src, doc, nodes, blockRanges, valueNodes, lineStarts,
                   lines, i, comments, hashIndexes>>

\* One iteration of "for (let i = 0; i < lines.length; i++)".
ScanLine ==
    /\ pc = "scan"
    /\ i < Len(lines)
    /\ LET line == lines[i + 1]
           lineStart == lineStarts[i + 1]
           hashIndex == commentHash(line, lineStart, 0)
       IN  IF hashIndex = -1
           THEN UNCHANGED <<comments, hashIndexes>>
           ELSE /\ comments' = Append(comments,
                      [line |-> recordLine(i),
                       path |-> commentPath(i, line, hashIndex),
                       text |-> commentText(line, hashIndex)])
                /\ hashIndexes' = Append(hashIndexes, hashIndex)
    /\ i' = i + 1
    /\ UNCHANGED <<src, doc, nodes, blockRanges, valueNodes, lineStarts,
                   lines, pc>>

\* return { comments }
Return ==
    /\ pc = "scan"
    /\ i >= Len(lines)
    /\ pc' = "done"
    /\ UNCHANGED <<src, doc, nodes, blockRanges, valueNodes, lineStarts,
                   lines, i, comments, hashIndexes>>

Next == Walk \/ WalkThrows \/ ScanLine \/ Return

Spec == Init /\ [][Next]_vars

(***************************************************************************)
(* The vocabulary of the properties: records, their "#", the catalog and   *)
(* the spans, read from the state.                                         *)
(***************************************************************************)
Scanning == pc \in {"scan", "done"}

Records == 1..Len(comments)

HashOffsetOf(k) == lineStarts[comments[k].line] + hashIndexes[k]

\* Only whitespace stands before column h (0-based) of line L (1-based).
OnlyWhitespaceBefore(L, h) ==
    \A n \in 1..h : lines[L][n] \in {" ", "\t", "\r"}

FullLineRecord(k) == OnlyWhitespaceBefore(comments[k].line, hashIndexes[k])

\* The columns of the "#" of line L.
HashesOn(L) == {h \in 0..(Len(lines[L]) - 1) : lines[L][h + 1] = "#"}

LineOfOffset(o) == Cardinality({n \in 1..Len(lineStarts) : lineStarts[n] <= o})

\* The smallest start of the catalog, Infinity for an empty catalog.
MinStart ==
    IF Len(nodes) = 0 THEN Infinity
    ELSE CHOOSE m \in {nodes[n].start : n \in 1..Len(nodes)} :
             \A n \in 1..Len(nodes) : m <= nodes[n].start

\* The offset at which the line after line L starts; the end of the text
\* after the last line.
NextLineStart(L) == IF L < Len(lines) THEN lineStarts[L + 1] ELSE Len(src)

\* The catalog in traversal order, before it is sorted.
Traversal == walkAst(doc, <<>>, EmptyAcc).nodes

\* The path of the entry with the smallest start >= o, the earliest
\* traversed of them; "document" when there is none.
NearestFollowingPath(o) ==
    LET T == Traversal
        cands == {n \in 1..Len(T) : T[n].start >= o}
        best == CHOOSE n \in cands :
                    \A m \in cands :
                        \/ T[n].start < T[m].start
                        \/ T[n].start = T[m].start /\ n <= m
    IN  IF cands = {} THEN "document" ELSE T[best].path

InLiteralSpan(o) ==
    \E n \in 1..Len(blockRanges) : blockRanges[n][1] <= o /\ o < blockRanges[n][2]

StrictlyInValueSpan(o) ==
    \E n \in 1..Len(valueNodes) : valueNodes[n].start < o /\ o < valueNodes[n].end

\* The scan passes over the "#" at column h of line L.
PassedOver(L, h) ==
    \/ InLiteralSpan(lineStarts[L] + h)
    \/ ~OnlyWhitespaceBefore(L, h) /\ StrictlyInValueSpan(lineStarts[L] + h)

PathsOf == [k \in Records |-> comments[k].path]

(***************************************************************************)
(* C1: a full-line comment at or after the first catalog entry's start     *)
(* gets the path of the entry with the smallest start at or after the      *)
(* start of the next line (the earliest traversed on ties), "document"     *)
(* when there is none; before a nested map's or sequence's first child     *)
(* that is the container's path, before a later child the child's path.    *)
(***************************************************************************)
C1_NextNodePath ==
    Scanning =>
      /\ \A k \in Records :
           (FullLineRecord(k) /\ Len(nodes) > 0 /\ HashOffsetOf(k) >= MinStart)
             => comments[k].path = NearestFollowingPath(NextLineStart(comments[k].line))
      /\ (pc = "done" /\ src = Source(<<"map">>, 1))
             => PathsOf = <<"a", "a.y", "a.y">>
      /\ (pc = "done" /\ src = Source(<<"seq">>, 1))
             => PathsOf = <<"a", "a.1">>

C1_Witness ==
    /\ pc = "done"
    /\ \E j, k, l \in Records :
         /\ FullLineRecord(j) /\ HashOffsetOf(j) >= MinStart
         /\ FullLineRecord(k) /\ HashOffsetOf(k) >= MinStart
         /\ FullLineRecord(l) /\ HashOffsetOf(l) >= MinStart
         /\ comments[j].path = "a" /\ comments[k].path = "a.y"
         /\ comments[l].path = "b"

(***************************************************************************)
(* C2: a full-line comment whose "#" is before the smallest start of the   *)
(* catalog, or any full-line comment when the catalog is empty, gets the   *)
(* path "document".                                                        *)
(***************************************************************************)
C2_BeforeFirstNode ==
    Scanning =>
      \A k \in Records :
        (FullLineRecord(k) /\ (Len(nodes) = 0 \/ HashOffsetOf(k) < MinStart))
          => comments[k].path = "document"

\* A full-line comment on the last line, after every entry.
C1_WitnessNoEntry ==
    /\ pc = "done"
    /\ \E k \in Records :
         /\ FullLineRecord(k) /\ HashOffsetOf(k) >= MinStart
         /\ comments[k].line = Len(lines) /\ comments[k].path = "document"

C2_Witness ==
    /\ pc = "done"
    /\ Len(nodes) > 0
    /\ \E k \in Records :
         /\ FullLineRecord(k) /\ HashOffsetOf(k) < MinStart
         /\ NearestFollowingPath(NextLineStart(comments[k].line)) # "document"
         /\ comments[k].path = "document"

(***************************************************************************)
(* C3: a trailing comment gets the path of the entry that, among those     *)
(* starting on the line of the "#" and ending at or before it, has the     *)
(* largest end; without such an entry the path of the first entry starting *)
(* at or after the "#", and "document" when there is none either.          *)
(***************************************************************************)
C3_TrailingLargestEnd ==
    Scanning =>
      \A k \in Records :
        ~FullLineRecord(k) =>
          LET o == HashOffsetOf(k)
              before == {n \in 1..Len(nodes) :
                           /\ nodes[n].end <= o
                           /\ LineOfOffset(nodes[n].start) = comments[k].line}
              latest == {n \in before : \A m \in before : nodes[m].end <= nodes[n].end}
          IN  IF before # {}
              THEN \E n \in latest : comments[k].path = nodes[n].path
              ELSE comments[k].path = NearestFollowingPath(o)

(***************************************************************************)
(* C4: no record is emitted for a "#" inside the [start, end) range of a   *)
(* block-literal or block-folded scalar of the document.                   *)
(***************************************************************************)
RECURSIVE BlockScalarsOf(_)
BlockScalarsOf(node) ==
    IF node.kind = "null" THEN {}
    ELSE IF node.kind = "scalar"
         THEN IF node.type \in {"BLOCK_LITERAL", "BLOCK_FOLDED"}
              THEN {node.range} ELSE {}
    ELSE IF node.kind = "seq"
         THEN UNION {BlockScalarsOf(node.items[n]) : n \in 1..Len(node.items)}
    ELSE UNION {BlockScalarsOf(node.items[n].key)
                  \cup BlockScalarsOf(node.items[n].value) :
                n \in 1..Len(node.items)}

C4_NoRecordInBlockScalar ==
    \A k \in Records :
      \A r \in BlockScalarsOf(doc) :
        ~(r[1] <= HashOffsetOf(k) /\ HashOffsetOf(k) < r[2])

(***************************************************************************)
(* C5, as stated: the text is the rest of the line after     *)
(* the "#" less one space at most.                                         *)
(***************************************************************************)
RestOfLine(k) ==
    SubSeq(lines[comments[k].line], hashIndexes[k] + 2,
           Len(lines[comments[k].line]))

FirstHashOn(L) == CHOOSE h \in HashesOn(L) : \A g \in HashesOn(L) : h <= g

C7_AscendingLines ==
    /\ \A j, k \in Records : j < k => comments[j].line < comments[k].line
    /\ \A k \in Records :
         /\ comments[k].line \in 1..Len(lines)
         /\ HashesOn(comments[k].line) # {}

C7_Witness ==
    /\ pc = "done"
    /\ Len(comments) >= 3
    /\ \E L \in 1..Len(lines) : HashesOn(L) = {}
    /\ \E L \in 1..Len(lines) :
         HashesOn(L) # {} /\ ~\E k \in Records : comments[k].line = L

(***************************************************************************)
(* C8: no record has the empty string as its path.                         *)
(***************************************************************************)
C8_NoEmptyPath == \A k \in Records : comments[k].path # ""

C10_WalkNeverThrows == pc # "threw"
====
